---- MODULE Spec2Model ----
(***************************************************************************)
(* A model of the file tools of basic-mcp-server: the sandboxed writer     *)
(* (write_files.py), the reader (read_files.py), the unsandboxed all-in-one*)
(* server (main.py) and the command runner (exec_cli.py).                  *)
(*                                                                         *)
(* The state is the filesystem the tools act on plus the record of the     *)
(* tool call that has just returned.  Every tool is synchronous and keeps  *)
(* no state of its own between calls, so a behaviour is: a filesystem, one *)
(* tool call on it, its outcome.                                           *)
(*                                                                         *)
(* A python str is a sequence of one-character strings; a path string is   *)
(* a record [abs, segs]: whether it starts with the separator, and its     *)
(* segments between separators.  A file holds the characters stored on     *)
(* disk, which text-mode reading does not hand back unchanged.             *)
(***************************************************************************)
EXTENDS Integers, Sequences, FiniteSets, TLC

VARIABLES fs, pre, call, result, pc

vars == <<fs, pre, call, result, pc>>

-----------------------------------------------------------------------------
(* Bounds of the input domains *)

MaxSegs == 2

MaxBatchSegs == 1

MaxLen == 2

MaxItemLen == 1

MaxItems == 2

-----------------------------------------------------------------------------
(* Characters, strings, paths *)

CR == "\r"

LF == "\n"

Chars == {"a", CR, LF}

Names == {"a", "b"}

Tokens == Names \cup {"..", "."}

SeqsUpTo(S, n) == UNION {[1..k -> S] : k \in 0..n}

Range(s) == {s[i] : i \in DOMAIN s}

Front(s) == SubSeq(s, 1, Len(s) - 1)

Last(s) == s[Len(s)]

Contents == SeqsUpTo(Chars, MaxLen)

ItemContents == SeqsUpTo(Chars, MaxItemLen)

Paths == [abs : BOOLEAN, segs : SeqsUpTo(Tokens, MaxSegs)]

BatchPaths == [abs : BOOLEAN, segs : SeqsUpTo(Tokens, MaxBatchSegs)]

Path(a, s) == [abs |-> a, segs |-> s]

-----------------------------------------------------------------------------
(* Values a tool hands back.  Every value is a record tagged with its      *)
(* python type, so a str, a list, a dict and None are pairwise different.  *)

Success == [t |-> "str", s |-> "Success"]

Text(c) == [t |-> "str", s |-> "text", text |-> c]

NoneV == [t |-> "None"]

ListV(items) == [t |-> "list", items |-> items]

DictV(m) == [t |-> "dict", map |-> m]

NotAbsoluteMsg(p) == [t |-> "str", s |-> "Error: Path is not absolute. Only absolute paths are allowed.", path |-> p]

DotDotMsg(p) == [t |-> "str", s |-> "Error: Path contains '..' symbols which are not allowed.", path |-> p]

EmptyMatchMsg == [t |-> "str", s |-> "Error: 'match' argument cannot be empty string. Provide correct part of file."]

NotFoundMsg == [t |-> "str", s |-> "Error: match not found in file contents"]

OSErrorStr(errno) == [t |-> "str", s |-> "str(e)", errno |-> errno]

NotEditedMsg(errno) == [t |-> "str", s |-> "Error: str(e), file not edited", errno |-> errno]

MainEditErrorMsg(errno) == [t |-> "str", s |-> "Error: str(e)", errno |-> errno]

NotADirectoryPayload(p) == [t |-> "dict", map |-> [error |-> [t |-> "str", s |-> "Path is not a directory", path |-> p]]]

CliErrorMsg(stderr) == [t |-> "str", s |-> "Error: stderr", text |-> stderr]

Put(d, k, v) == [x \in (DOMAIN d) \cup {k} |-> IF x = k THEN v ELSE d[x]]

EmptyDict == <<>>

-----------------------------------------------------------------------------
(* The filesystem: a function from the locations that exist (sequences of  *)
(* names below the root) to nodes.  r and w are the permission bits the    *)
(* calling process has on the node.                                        *)

Dir(w) == [kind |-> "dir", content |-> <<>>, r |-> TRUE, w |-> w]

File(c, r, w) == [kind |-> "file", content |-> c, r |-> r, w |-> w]

Cwd == <<>>

Parent(loc) == IF loc = <<>> THEN <<>> ELSE Front(loc)

IsDirAt(f, loc) == loc \in DOMAIN f /\ f[loc].kind = "dir"

IsFileAt(f, loc) == loc \in DOMAIN f /\ f[loc].kind = "file"

RECURSIVE Walk(_, _, _)
Walk(f, cur, segs) ==
    IF segs = <<>> THEN [err |-> "", loc |-> cur]
    ELSE LET c == Head(segs)
             rest == Tail(segs)
             nxt == Append(cur, c)
         IN IF c = "." THEN Walk(f, cur, rest)
            ELSE IF c = ".." THEN Walk(f, Parent(cur), rest)
            ELSE IF rest = <<>> THEN [err |-> "", loc |-> nxt]
            ELSE IF nxt \notin DOMAIN f THEN [err |-> "ENOENT", loc |-> nxt]
            ELSE IF f[nxt].kind # "dir" THEN [err |-> "ENOTDIR", loc |-> nxt]
            ELSE Walk(f, nxt, rest)

Resolve(f, p) ==
    IF ~p.abs /\ p.segs = <<>> THEN [err |-> "ENOENT", loc |-> <<>>]
    ELSE Walk(f, IF p.abs THEN <<>> ELSE Cwd, p.segs)

isdir(f, p) == LET r == Resolve(f, p) IN r.err = "" /\ IsDirAt(f, r.loc)

exists(f, p) == LET r == Resolve(f, p) IN r.err = "" /\ r.loc \in DOMAIN f

mkdir(f, p) ==
    LET r == Resolve(f, p)
    IN IF r.err # "" THEN [fs |-> f, err |-> r.err]
       ELSE IF r.loc \in DOMAIN f THEN [fs |-> f, err |-> "EEXIST"]
       ELSE IF ~f[Parent(r.loc)].w THEN [fs |-> f, err |-> "EACCES"]
       ELSE [fs |-> (r.loc :> Dir(TRUE)) @@ f, err |-> ""]

RECURSIVE makedirs(_, _, _)
makedirs(f, name, exist_ok) ==
    LET head == IF name.segs = <<>> THEN name ELSE Path(name.abs, Front(name.segs))
        tail == IF name.segs = <<>> THEN "" ELSE Last(name.segs)
        headNonEmpty == name.abs \/ Len(name.segs) >= 2
        recurse == headNonEmpty /\ tail # "" /\ ~exists(f, head)
        r1 == IF recurse THEN makedirs(f, head, exist_ok) ELSE [fs |-> f, err |-> ""]
        r2 == mkdir(r1.fs, name)
    IN IF recurse /\ r1.err \notin {"", "EEXIST"} THEN r1
       ELSE IF recurse /\ tail = "." THEN [fs |-> r1.fs, err |-> ""]
       ELSE IF r2.err = "" THEN r2
       ELSE IF ~exist_ok \/ ~isdir(r1.fs, name) THEN r2
       ELSE [fs |-> r1.fs, err |-> ""]

dirname(p) == IF p.segs = <<>> THEN p ELSE Path(p.abs, Front(p.segs))

join(root, name) == Path(root.abs, Append(root.segs, name))

-----------------------------------------------------------------------------
(* Text-mode file objects (open(path, mode) with the default newline=None) *)

Linesep == <<LF>>

RECURSIVE UniversalNewlines(_)
UniversalNewlines(b) ==
    IF b = <<>> THEN <<>>
    ELSE IF Head(b) = CR
         THEN IF Len(b) >= 2 /\ b[2] = LF
              THEN <<LF>> \o UniversalNewlines(SubSeq(b, 3, Len(b)))
              ELSE <<LF>> \o UniversalNewlines(Tail(b))
         ELSE <<Head(b)>> \o UniversalNewlines(Tail(b))

RECURSIVE WriteNewlines(_)
WriteNewlines(s) ==
    IF s = <<>> THEN <<>>
    ELSE (IF Head(s) = LF THEN Linesep ELSE <<Head(s)>>) \o WriteNewlines(Tail(s))

open_w(f, p, data) ==
    LET r == Resolve(f, p)
    IN IF r.err # "" THEN [fs |-> f, err |-> r.err]
       ELSE IF IsDirAt(f, r.loc) THEN [fs |-> f, err |-> "EISDIR"]
       ELSE IF IsFileAt(f, r.loc)
            THEN IF ~f[r.loc].w THEN [fs |-> f, err |-> "EACCES"]
                 ELSE [fs |-> [f EXCEPT ![r.loc].content = WriteNewlines(data)], err |-> ""]
       ELSE IF ~f[Parent(r.loc)].w THEN [fs |-> f, err |-> "EACCES"]
       ELSE [fs |-> (r.loc :> File(WriteNewlines(data), TRUE, TRUE)) @@ f, err |-> ""]

open_r(f, p) ==
    LET r == Resolve(f, p)
    IN IF r.err # "" THEN [err |-> r.err, text |-> <<>>]
       ELSE IF r.loc \notin DOMAIN f THEN [err |-> "ENOENT", text |-> <<>>]
       ELSE IF IsDirAt(f, r.loc) THEN [err |-> "EISDIR", text |-> <<>>]
       ELSE IF ~f[r.loc].r THEN [err |-> "EACCES", text |-> <<>>]
       ELSE [err |-> "", text |-> UniversalNewlines(f[r.loc].content)]

open_rplus(f, p) ==
    LET r == Resolve(f, p)
    IN IF r.err # "" THEN [err |-> r.err, loc |-> r.loc, text |-> <<>>]
       ELSE IF r.loc \notin DOMAIN f THEN [err |-> "ENOENT", loc |-> r.loc, text |-> <<>>]
       ELSE IF IsDirAt(f, r.loc) THEN [err |-> "EISDIR", loc |-> r.loc, text |-> <<>>]
       ELSE IF ~f[r.loc].r \/ ~f[r.loc].w THEN [err |-> "EACCES", loc |-> r.loc, text |-> <<>>]
       ELSE [err |-> "", loc |-> r.loc, text |-> UniversalNewlines(f[r.loc].content)]

rewrite(f, loc, new_content) == [f EXCEPT ![loc].content = WriteNewlines(new_content)]

-----------------------------------------------------------------------------
(* str.find and str.replace *)

IsPrefix(m, s) == Len(m) <= Len(s) /\ SubSeq(s, 1, Len(m)) = m

RECURSIVE FindFrom(_, _, _)
FindFrom(s, m, i) ==
    IF i + Len(m) > Len(s) THEN -1
    ELSE IF SubSeq(s, i + 1, i + Len(m)) = m THEN i
    ELSE FindFrom(s, m, i + 1)

find(s, m) == FindFrom(s, m, 0)

RECURSIVE Interleave(_, _, _)
Interleave(s, sub, count) ==
    IF count = 0 THEN s
    ELSE IF s = <<>> THEN sub
    ELSE sub \o <<Head(s)>> \o Interleave(Tail(s), sub, count - 1)

RECURSIVE ReplaceNonEmpty(_, _, _, _)
ReplaceNonEmpty(s, m, sub, count) ==
    IF count = 0 \/ Len(s) < Len(m) THEN s
    ELSE IF IsPrefix(m, s)
         THEN sub \o ReplaceNonEmpty(SubSeq(s, Len(m) + 1, Len(s)), m, sub, count - 1)
         ELSE <<Head(s)>> \o ReplaceNonEmpty(Tail(s), m, sub, count)

replace(s, m, sub, count) ==
    IF m = <<>> THEN Interleave(s, sub, count) ELSE ReplaceNonEmpty(s, m, sub, count)

-----------------------------------------------------------------------------
(* What a call does: the filesystem it leaves, the exception that escapes  *)
(* the tool function ("" when it returns), and the value it returns.       *)

Out(f, exc, val) == [fs |-> f, exc |-> exc, val |-> val]

ExcOf(errno) ==
    CASE errno = "ENOENT" -> "FileNotFoundError"
      [] errno = "ENOTDIR" -> "NotADirectoryError"
      [] errno = "EISDIR" -> "IsADirectoryError"
      [] errno = "EACCES" -> "PermissionError"
      [] errno = "EEXIST" -> "FileExistsError"
      [] OTHER -> "OSError"

-----------------------------------------------------------------------------
(* write_files.py *)

RECURSIVE normcomps(_, _, _)
normcomps(initial_slashes, comps, new_comps) ==
    IF comps = <<>> THEN new_comps
    ELSE LET comp == Head(comps)
         IN IF comp = "." THEN normcomps(initial_slashes, Tail(comps), new_comps)
            ELSE IF comp # ".."
                    \/ (~initial_slashes /\ new_comps = <<>>)
                    \/ (new_comps # <<>> /\ Last(new_comps) = "..")
                 THEN normcomps(initial_slashes, Tail(comps), Append(new_comps, comp))
            ELSE IF new_comps # <<>>
                 THEN normcomps(initial_slashes, Tail(comps), Front(new_comps))
            ELSE normcomps(initial_slashes, Tail(comps), new_comps)

normpath(p) ==
    LET comps == normcomps(p.abs, p.segs, <<>>)
    IN IF ~p.abs /\ comps = <<>> THEN Path(FALSE, <<".">>) ELSE Path(p.abs, comps)

validate_path(p) ==
    IF ~p.abs THEN [ok |-> FALSE, msg |-> NotAbsoluteMsg(p)]
    ELSE IF ".." \in Range(normpath(p).segs) THEN [ok |-> FALSE, msg |-> DotDotMsg(p)]
    ELSE [ok |-> TRUE, msg |-> [t |-> "str", s |-> ""]]

write_whole_file(f, path, content) ==
    LET v == validate_path(path)
        d == makedirs(f, dirname(path), TRUE)
        w == open_w(d.fs, path, content)
    IN IF ~v.ok THEN Out(f, "", v.msg)
       ELSE IF d.err # "" THEN Out(d.fs, "", OSErrorStr(d.err))
       ELSE IF w.err # "" THEN Out(w.fs, "", OSErrorStr(w.err))
       ELSE Out(w.fs, "", Success)

HasKeys(file_info) == {"path", "content"} \subseteq DOMAIN file_info

write_item(f, results, file_info) ==
    IF ~HasKeys(file_info) THEN [fs |-> f, results |-> results, exc |-> "KeyError"]
    ELSE LET path == file_info.path
             v == validate_path(path)
             d == makedirs(f, dirname(path), TRUE)
             w == open_w(d.fs, path, file_info.content)
         IN IF ~v.ok THEN [fs |-> f, results |-> Put(results, path, v.msg), exc |-> ""]
            ELSE IF d.err # ""
                 THEN [fs |-> d.fs, results |-> Put(results, path, OSErrorStr(d.err)), exc |-> ""]
            ELSE IF w.err # ""
                 THEN [fs |-> w.fs, results |-> Put(results, path, OSErrorStr(w.err)), exc |-> ""]
            ELSE [fs |-> w.fs, results |-> Put(results, path, Success), exc |-> ""]

RECURSIVE write_loop(_, _, _)
write_loop(f, results, files) ==
    IF files = <<>> THEN [fs |-> f, results |-> results, exc |-> ""]
    ELSE LET step == write_item(f, results, Head(files))
         IN IF step.exc # "" THEN step
            ELSE write_loop(step.fs, step.results, Tail(files))

write_multiple_files(f, files) ==
    LET r == write_loop(f, EmptyDict, files)
    IN IF r.exc # "" THEN Out(r.fs, r.exc, NoneV) ELSE Out(r.fs, "", DictV(r.results))

edit_files(f, path, match, substitute) ==
    LET v == validate_path(path)
        o == open_rplus(f, path)
        new_content == replace(o.text, match, substitute, 1)
    IN IF match = <<>> THEN Out(f, "", EmptyMatchMsg)
       ELSE IF ~v.ok THEN Out(f, "", v.msg)
       ELSE IF o.err # "" THEN Out(f, "", NotEditedMsg(o.err))
       ELSE IF find(o.text, match) = -1 THEN Out(f, "", NotFoundMsg)
       ELSE Out(rewrite(f, o.loc, new_content), "", Success)

create_directory_not_exist_ok(f, path) ==
    LET v == validate_path(path)
        d == makedirs(f, path, FALSE)
    IN IF ~v.ok THEN Out(f, "", v.msg)
       ELSE IF d.err # "" THEN Out(d.fs, "", OSErrorStr(d.err))
       ELSE Out(d.fs, "", Success)

create_directory(f, path) ==
    LET v == validate_path(path)
        d == makedirs(f, path, TRUE)
    IN IF ~v.ok THEN Out(f, "", v.msg)
       ELSE IF d.err # "" THEN Out(d.fs, "", OSErrorStr(d.err))
       ELSE Out(d.fs, "", Success)

-----------------------------------------------------------------------------
(* main.py: the same tools without the path validator *)

main_write_whole_file(f, path, content) ==
    LET w == open_w(f, path, content)
    IN IF w.err # "" THEN Out(w.fs, "", OSErrorStr(w.err)) ELSE Out(w.fs, "", Success)

main_edit_files(f, path, match, substitute) ==
    LET o == open_rplus(f, path)
        new_content == replace(o.text, match, substitute, -1)
    IN IF o.err # "" THEN Out(f, "", MainEditErrorMsg(o.err))
       ELSE Out(rewrite(f, o.loc, new_content), "", Success)

main_create_directory(f, path) ==
    LET d == makedirs(f, path, TRUE)
    IN IF d.err # "" THEN Out(d.fs, "", OSErrorStr(d.err)) ELSE Out(d.fs, "", Success)

-----------------------------------------------------------------------------
(* read_files.py (main.py carries the same read_file and list_files) *)

read_file(f, path) ==
    LET o == open_r(f, path)
    IN IF o.err # "" THEN Out(f, ExcOf(o.err), NoneV) ELSE Out(f, "", Text(o.text))

read_item_drops_failures(f, ret, path) ==
    LET o == open_r(f, path)
    IN IF o.err = "" THEN Put(ret, path, Text(o.text)) ELSE ret

read_item(f, ret, path) ==
    LET o == open_r(f, path)
    IN IF o.err = "" THEN Put(ret, path, Text(o.text)) ELSE Put(ret, path, NoneV)

RECURSIVE read_loop(_, _, _)
read_loop(f, ret, paths) ==
    IF paths = <<>> THEN ret ELSE read_loop(f, read_item(f, ret, Head(paths)), Tail(paths))

read_multiple_files(f, paths) == Out(f, "", DictV(read_loop(f, EmptyDict, paths)))

(* The order in which the operating system enumerates a directory is not   *)
(* fixed: a call sees the entries in one of the orders of the names.       *)
ScanOrders == {o \in [1..Cardinality(Names) -> Names] : Range(o) = Names}

scandir_files(f, loc, order) == SelectSeq(order, LAMBDA n : IsFileAt(f, Append(loc, n)))

scandir_dirs(f, loc, order) == SelectSeq(order, LAMBDA n : IsDirAt(f, Append(loc, n)))

listdir(f, loc, order) == SelectSeq(order, LAMBDA n : Append(loc, n) \in DOMAIN f)

RECURSIVE walk(_, _, _, _)
RECURSIVE walk_dirs(_, _, _, _, _)
walk(f, top, loc, order) ==
    <<[root |-> top, dirs |-> scandir_dirs(f, loc, order), files |-> scandir_files(f, loc, order)]>>
        \o walk_dirs(f, top, loc, order, scandir_dirs(f, loc, order))

walk_dirs(f, top, loc, order, dirs) ==
    IF dirs = <<>> THEN <<>>
    ELSE walk(f, join(top, Head(dirs)), Append(loc, Head(dirs)), order)
            \o walk_dirs(f, top, loc, order, Tail(dirs))

RECURSIVE file_list(_)
file_list(triples) ==
    IF triples = <<>> THEN <<>>
    ELSE LET t == Head(triples)
         IN [i \in 1..Len(t.files) |-> join(t.root, t.files[i])] \o file_list(Tail(triples))

list_files_top_only(f, path, recursive, order) ==
    LET loc == Resolve(f, path).loc
    IN IF ~isdir(f, path) THEN Out(f, "", NotADirectoryPayload(path))
       ELSE IF recursive
            THEN Out(f, "", ListV([i \in 1..Len(scandir_files(f, loc, order)) |->
                                     join(path, scandir_files(f, loc, order)[i])]))
       ELSE Out(f, "", ListV([i \in 1..Len(listdir(f, loc, order)) |->
                                Path(FALSE, <<listdir(f, loc, order)[i]>>)]))

list_files(f, path, recursive, order) ==
    LET loc == Resolve(f, path).loc
    IN IF ~isdir(f, path) THEN Out(f, "", NotADirectoryPayload(path))
       ELSE IF recursive THEN Out(f, "", ListV(file_list(walk(f, path, loc, order))))
       ELSE Out(f, "", ListV([i \in 1..Len(listdir(f, loc, order)) |->
                                Path(FALSE, <<listdir(f, loc, order)[i]>>)]))

-----------------------------------------------------------------------------
(* exec_cli.py: the shell and the command are outside the program; what    *)
(* subprocess.run gets back from them is an input of the call.             *)

Outputs == {<<>>, <<"a">>}

Processes == [returncode : {0, 1}, stdout : Outputs, stderr : Outputs]

run_cli_command(f, proc) ==
    IF proc.returncode # 0 THEN Out(f, "", CliErrorMsg(proc.stderr))
    ELSE Out(f, "", Text(proc.stdout))

-----------------------------------------------------------------------------
(* Filesystems a call may find *)

FsEmpty == <<>> :> Dir(TRUE)

FsFlat ==
    (<<>> :> Dir(TRUE)) @@ (<<"a">> :> File(<<"a">>, TRUE, TRUE)) @@ (<<"b">> :> Dir(TRUE))

FsTree ==
    (<<>> :> Dir(TRUE)) @@ (<<"a">> :> Dir(TRUE))
        @@ (<<"a", "a">> :> File(<<"a", "a">>, TRUE, TRUE))
        @@ (<<"a", "b">> :> Dir(TRUE))
        @@ (<<"a", "b", "a">> :> File(<<"a", LF, "a">>, TRUE, TRUE))
        @@ (<<"a", "b", "b">> :> Dir(TRUE))
        @@ (<<"b">> :> File(<<"a", "a", "a">>, TRUE, TRUE))

FsCrlf ==
    (<<>> :> Dir(TRUE)) @@ (<<"a">> :> File(<<"a", CR, LF, "a">>, TRUE, TRUE))
        @@ (<<"b">> :> File(<<CR>>, TRUE, TRUE))

FsLocked ==
    (<<>> :> Dir(TRUE)) @@ (<<"a">> :> Dir(FALSE))
        @@ (<<"a", "a">> :> File(<<"a", "a">>, FALSE, FALSE))
        @@ (<<"b">> :> File(<<"a">>, TRUE, FALSE))

InitialFilesystems == {FsEmpty, FsFlat, FsTree, FsCrlf, FsLocked}

FileInfos == [path : Paths, content : ItemContents]

MalformedFileInfos == {[content |-> <<>>], [path |-> Path(TRUE, <<"a">>)]}

-----------------------------------------------------------------------------
(* The state machine: one tool call on one filesystem *)

Init ==
    /\ fs \in InitialFilesystems
    /\ pre = fs
    /\ call = [op |-> "none"]
    /\ result = [exc |-> "", val |-> NoneV]
    /\ pc = "idle"

Returns(c, out) ==
    /\ pc' = "returned"
    /\ pre' = fs
    /\ call' = c
    /\ fs' = out.fs
    /\ result' = [exc |-> out.exc, val |-> out.val]

WriteWholeFile ==
    /\ pc = "idle"
    /\ \E path \in Paths, content \in Contents :
        Returns([op |-> "write_whole_file", src |-> "write_files", path |-> path,
                 content |-> content],
                write_whole_file(fs, path, content))

WriteMultipleFiles ==
    /\ pc = "idle"
    /\ \E files \in SeqsUpTo(FileInfos \cup MalformedFileInfos, MaxItems) :
        Returns([op |-> "write_multiple_files", src |-> "write_files", files |-> files],
                write_multiple_files(fs, files))

EditFiles ==
    /\ pc = "idle"
    /\ \E path \in Paths, match \in Contents, substitute \in Contents :
        Returns([op |-> "edit_files", src |-> "write_files", path |-> path,
                 match |-> match, substitute |-> substitute],
                edit_files(fs, path, match, substitute))

CreateDirectory ==
    /\ pc = "idle"
    /\ \E path \in Paths :
        Returns([op |-> "create_directory", src |-> "write_files", path |-> path],
                create_directory(fs, path))

MainWriteWholeFile ==
    /\ pc = "idle"
    /\ \E path \in Paths, content \in Contents :
        Returns([op |-> "write_whole_file", src |-> "main", path |-> path,
                 content |-> content],
                main_write_whole_file(fs, path, content))

MainEditFiles ==
    /\ pc = "idle"
    /\ \E path \in Paths, match \in Contents, substitute \in Contents :
        Returns([op |-> "edit_files", src |-> "main", path |-> path,
                 match |-> match, substitute |-> substitute],
                main_edit_files(fs, path, match, substitute))

MainCreateDirectory ==
    /\ pc = "idle"
    /\ \E path \in Paths :
        Returns([op |-> "create_directory", src |-> "main", path |-> path],
                main_create_directory(fs, path))

ReadFile ==
    /\ pc = "idle"
    /\ \E path \in Paths :
        Returns([op |-> "read_file", src |-> "read_files", path |-> path],
                read_file(fs, path))

ReadMultipleFiles ==
    /\ pc = "idle"
    /\ \E paths \in SeqsUpTo(BatchPaths, MaxItems) :
        Returns([op |-> "read_multiple_files", src |-> "read_files", paths |-> paths],
                read_multiple_files(fs, paths))

ListFiles ==
    /\ pc = "idle"
    /\ \E path \in Paths, recursive \in BOOLEAN, order \in ScanOrders :
        Returns([op |-> "list_files", src |-> "read_files", path |-> path,
                 recursive |-> recursive, order |-> order],
                list_files(fs, path, recursive, order))

RunCliCommand ==
    /\ pc = "idle"
    /\ \E proc \in Processes :
        Returns([op |-> "run_cli_command", src |-> "exec_cli", proc |-> proc],
                run_cli_command(fs, proc))

Next ==
    \/ ReadFile
    \/ ReadMultipleFiles
    \/ ListFiles
    \/ MainWriteWholeFile
    \/ MainEditFiles
    \/ MainCreateDirectory
    \/ WriteWholeFile
    \/ WriteMultipleFiles
    \/ EditFiles
    \/ CreateDirectory
    \/ RunCliCommand

Spec == Init /\ [][Next]_vars

(* The reader alone, as read_files.py serves it *)
NextRead == ReadFile \/ ReadMultipleFiles \/ ListFiles

SpecRead == Init /\ [][NextRead]_vars

(* The directory maker alone, in both servers *)
NextDir == CreateDirectory \/ MainCreateDirectory

SpecDir == Init /\ [][NextDir]_vars

-----------------------------------------------------------------------------
(* Vocabulary of the properties, stated on the filesystem and not through  *)
(* the tool functions                                                      *)

Returned(op) == pc = "returned" /\ call.op = op

HasDotDotOrRelative(p) == ~p.abs \/ ".." \in Range(p.segs)

OccursAt(s, m, i) == i >= 1 /\ i + Len(m) - 1 <= Len(s) /\ SubSeq(s, i, i + Len(m) - 1) = m

Occurs(s, m) == \E i \in 1..Len(s) : OccursAt(s, m, i)

EarliestReplaced(old, m, sub, new) ==
    \E i \in 1..Len(old) :
        /\ OccursAt(old, m, i)
        /\ \A j \in 1..(i - 1) : ~OccursAt(old, m, j)
        /\ new = SubSeq(old, 1, i - 1) \o sub \o SubSeq(old, i + Len(m), Len(old))

AncestorsExist(f, loc) == \A k \in 0..Len(loc) : IsDirAt(f, SubSeq(loc, 1, k))

StrictAncestorsExist(f, loc) == \A k \in 0..(Len(loc) - 1) : IsDirAt(f, SubSeq(loc, 1, k))

ReadableFile(f, p) ==
    LET r == Resolve(f, p) IN r.err = "" /\ IsFileAt(f, r.loc) /\ f[r.loc].r

IsBelow(loc, d) == Len(loc) > Len(d) /\ SubSeq(loc, 1, Len(d)) = d

FilesUnder(f, p) ==
    LET d == Resolve(f, p).loc
    IN {Path(p.abs, p.segs \o SubSeq(loc, Len(d) + 1, Len(loc))) :
            loc \in {l \in DOMAIN f : IsFileAt(f, l) /\ IsBelow(l, d)}}

-----------------------------------------------------------------------------
(* C1: in the sandboxed writer, a mutating call whose path is relative or  *)
(* has a '..' segment (absolute ones such as '/a/../b' included) returns a *)
(* failure and leaves the filesystem exactly as it was.                    *)
C1_BadPathLeavesFilesystemAlone ==
    (pc = "returned" /\ call.src = "write_files") =>
        /\ (call.op \in {"write_whole_file", "edit_files", "create_directory"}
                /\ HasDotDotOrRelative(call.path))
             => (result.exc = "" /\ result.val.t = "str" /\ result.val # Success /\ fs = pre)
        /\ (call.op = "write_multiple_files"
                /\ \A i \in DOMAIN call.files :
                      HasKeys(call.files[i]) /\ HasDotDotOrRelative(call.files[i].path))
             => /\ result.exc = ""
                /\ \A i \in DOMAIN call.files : result.val.map[call.files[i].path] # Success
                /\ fs = pre

(* C2: a successful edit_files, in either server, with a non-empty match   *)
(* that occurs in the file's text, leaves the file holding that text with  *)
(* only the earliest occurrence replaced by the substitute: the later      *)
(* occurrences stay and nothing of the old text trails the new end.        *)
C2_EditReplacesEarliestOnly ==
    (Returned("edit_files") /\ result.val = Success) =>
        LET loc == Resolve(pre, call.path).loc
            old == UniversalNewlines(pre[loc].content)
        IN (call.match # <<>> /\ Occurs(old, call.match))
             => EarliestReplaced(old, call.match, call.substitute, fs[loc].content)

(* C3: write_multiple_files returns a mapping whatever its items are, and  *)
(* the mapping holds, for every supplied path, "Success" (the file then    *)
(* holding the content of the last item written to it) or an error text.   *)
C3_WriteManyIsolatesItems ==
    Returned("write_multiple_files") =>
        /\ result.exc = ""
        /\ result.val.t = "dict"
        /\ \A i \in DOMAIN call.files :
              "path" \in DOMAIN call.files[i] =>
                LET p == call.files[i].path
                    loc == Resolve(fs, p).loc
                    same == {j \in DOMAIN call.files :
                                /\ HasKeys(call.files[j])
                                /\ result.val.map[call.files[j].path] = Success
                                /\ Resolve(fs, call.files[j].path).loc = loc}
                    last == CHOOSE j \in same : \A k \in same : k <= j
                IN /\ p \in DOMAIN result.val.map
                   /\ result.val.map[p].t = "str"
                   /\ result.val.map[p] = Success
                        => (IsFileAt(fs, loc) /\ fs[loc].content = call.files[last].content)

C5_NoFaultCrossesBoundary ==
    pc = "returned" => (result.exc = "" /\ result.val.t \in {"str", "list", "dict"})

(* C6: after write_whole_file(P, C) of the sandboxed writer returns        *)
(* "Success", read_file(P) returns exactly C and the parents of P exist.   *)
C6_WriteReadRoundTrip ==
    (Returned("write_whole_file") /\ call.src = "write_files" /\ result.val = Success) =>
        LET r == read_file(fs, call.path)
        IN /\ r.exc = ""
           /\ r.val = Text(call.content)
           /\ StrictAncestorsExist(fs, Resolve(fs, call.path).loc)

(* C7: edit_files with an empty match returns the fixed "cannot be empty"  *)
(* message and leaves the filesystem unchanged, whatever the path.         *)
C7_EmptyMatchAlwaysRejected ==
    (Returned("edit_files") /\ call.match = <<>>) =>
        (result.exc = "" /\ result.val = EmptyMatchMsg /\ fs = pre)

(* C8: edit_files on an existing, editable file whose text does not hold   *)
(* the match returns the "not found" error and writes nothing, and the     *)
(* same call again gives the same error and the same content.              *)
C8_AbsentMatchIsNoOp ==
    (/\ Returned("edit_files")
     /\ call.match # <<>>
     /\ (call.src = "write_files" => validate_path(call.path).ok)
     /\ open_rplus(pre, call.path).err = ""
     /\ ~Occurs(open_rplus(pre, call.path).text, call.match)) =>
        LET again == IF call.src = "main"
                     THEN main_edit_files(fs, call.path, call.match, call.substitute)
                     ELSE edit_files(fs, call.path, call.match, call.substitute)
        IN /\ result.exc = ""
           /\ result.val = NotFoundMsg
           /\ fs = pre
           /\ again.val = NotFoundMsg
           /\ again.fs = pre

(* C9: list_files(dir, recursive=true) returns a list whose elements are   *)
(* exactly the paths, joined from dir, of the files anywhere below dir,    *)
(* with no directory among them and the empty list when there is no file;  *)
(* on a path that is no directory it returns the error dict, not a list.   *)
C9_ListFilesRecursive ==
    (Returned("list_files") /\ call.recursive) =>
        /\ result.exc = ""
        /\ fs = pre
        /\ IF isdir(pre, call.path)
           THEN /\ result.val.t = "list"
                /\ Range(result.val.items) = FilesUnder(pre, call.path)
                /\ \A i \in DOMAIN result.val.items : ~isdir(pre, result.val.items[i])
                /\ (FilesUnder(pre, call.path) = {}) => (result.val.items = <<>>)
           ELSE /\ result.val.t = "dict"
                /\ DOMAIN result.val.map = {"error"}

C9_Witness ==
    /\ Returned("list_files")
    /\ call.recursive
    /\ result.val.t = "list"
    /\ Len(result.val.items) >= 3
    /\ \E i \in DOMAIN result.val.items :
          Len(result.val.items[i].segs) >= Len(call.path.segs) + 3
    /\ \E l \in DOMAIN pre : IsDirAt(pre, l) /\ IsBelow(l, Resolve(pre, call.path).loc)

(* C10: create_directory never raises; when it returns "Success" the       *)
(* directory and its ancestors exist, nothing that existed was altered,    *)
(* and the same call again returns "Success" and changes nothing; when the *)
(* path or an ancestor is a regular file it returns an error string.       *)
C10_CreateDirectoryIdempotent ==
    Returned("create_directory") =>
        LET r == Resolve(fs, call.path)
            again == IF call.src = "main"
                     THEN main_create_directory(fs, call.path)
                     ELSE create_directory(fs, call.path)
            blocked == \E k \in 1..Len(call.path.segs) :
                          LET q == Path(call.path.abs, SubSeq(call.path.segs, 1, k))
                          IN Resolve(pre, q).err = "" /\ IsFileAt(pre, Resolve(pre, q).loc)
        IN /\ result.exc = ""
           /\ result.val.t = "str"
           /\ \A l \in DOMAIN pre : l \in DOMAIN fs /\ fs[l] = pre[l]
           /\ result.val = Success =>
                /\ r.err = ""
                /\ AncestorsExist(fs, r.loc)
                /\ again.exc = ""
                /\ again.val = Success
                /\ again.fs = fs
           /\ blocked => result.val # Success

C10_Witness ==
    /\ Returned("create_directory")
    /\ call.src = "write_files"
    /\ result.val = Success
    /\ Cardinality(DOMAIN fs) >= Cardinality(DOMAIN pre) + 2
    /\ IsDirAt(fs, Resolve(fs, call.path).loc)

====
